---- MODULE Spec2Model ----
(***************************************************************************)
(* The two notebooks of TGIR-Cap3DXWeaviate as a state machine.            *)
(*                                                                         *)
(*   monitor.ipynb            cell 1: directory entry count                *)
(*                            cell 2: the session cell (with ... as client)*)
(*   the exploratory notebook cell 1: the session cell                     *)
(*                            cells "obj", "obj.vector", directory count   *)
(*                                                                         *)
(* One kernel runs one notebook; its cells may be run in any order and any *)
(* number of times, and the kernel's names persist from one cell run to    *)
(* the next.  The session cell is modelled statement by statement; the     *)
(* vector database and the filesystem are the environment: every call to   *)
(* them either fails (the library raises) or answers from the store.       *)
(***************************************************************************)
EXTENDS Integers, Sequences, FiniteSets, TLC

\* ------------------------------------------------------------------ bounds
MaxVecLen == 6
MaxDirEntries == 2

\* ------------------------------------------------------- program constants
COLLECTION_NAME == "Cap3DMM"
DATA_UPLOAD_COLLECTION_NAME == "UploadCap3DMM"

\* monitor.ipynb: uuid = "8e88212e-..."
uuid == "8e88212e-12ce-5942-954f-f49ed469dfe8"

\* exploratory notebook: the list uuids; the cell fetches uuids[0]
uuids == << "46c932c1-d44e-5b30-95d7-4c8909d02fb8",
            "91faaa0e-6a0f-5587-a2dd-fd6e2f3ca3e8",
            "db04848b-c5dd-5ec1-a340-adcc209e9b5e",
            "e574ddc1-3171-5a81-a3aa-d4e2928b9f54",
            "baa41176-79e8-5fbb-8b16-7444f228f88a" >>

\* the slice bound of obj.vector["default"][:5]
HeadLen == 5

AssertMessage == "Weaviate client is not live"
EstablishedText == "Client connection established"
CountText == "Number of objects in"

Notebooks == {"monitor", "explore"}

\* the identifier the session cell of notebook n fetches (Python's uuids[0]
\* is the first element, index 1 here)
FetchUuid(n) == IF n = "monitor" THEN uuid ELSE uuids[1]

\* ------------------------------------------------------------------- state
VARIABLES
    nb,                        \* which notebook this kernel runs
    store,                     \* the external store: collection -> (id -> object)
    dir,                       \* the directory snapshot: its immediate entries
    cell,                      \* the cell run last (or running)
    pc,                        \* the statement of the session cell to run next
    conn,                      \* number of open client connections
    exc,                       \* the exception the cell run ended with
    trace,                     \* what the current cell run did, in order
    cap3d,                     \* kernel name: collection handle
    cap3d_upload,              \* kernel name: collection handle
    cap3d_object_count,        \* kernel name: <<>> unbound, <<n>> bound
    cap3d_upload_image_count,  \* kernel name: <<>> unbound, <<n>> bound
    obj,                       \* kernel name: unbound, None or an object
    entry_count                \* the value of the directory count cell (Out)

vars == << nb, store, dir, cell, pc, conn, exc, trace, cap3d, cap3d_upload,
           cap3d_object_count, cap3d_upload_image_count, obj, entry_count >>

kernel == << cap3d, cap3d_upload, cap3d_object_count,
             cap3d_upload_image_count, obj, entry_count >>

\* ------------------------------------------------------------ the store
\* obj.vector is a dict of named vector slots: {} or {"default": [...]}
EmptyVectorDict == [slots |-> {}, default |-> << >>]
VectorDict(v) == [slots |-> {"default"}, default |-> v]

\* the stored vectors tried: 1, 2, ..., n for every length n up to the bound
StoredVectors == { [i \in 1..n |-> i] : n \in 0..MaxVecLen }
VectorDicts == {EmptyVectorDict} \cup { VectorDict(v) : v \in StoredVectors }

Unbound == [kind |-> "unbound", uuid |-> "", vector |-> EmptyVectorDict]
None == [kind |-> "None", uuid |-> "", vector |-> EmptyVectorDict]
Object(id, vd) == [kind |-> "Object", uuid |-> id, vector |-> vd]

Cap3dIds == {uuid, uuids[1]}
UploadIds == {"upload-object"}

NoExc == [type |-> "none", msg |-> ""]
AssertionError == [type |-> "AssertionError", msg |-> AssertMessage]
LibraryError == [type |-> "WeaviateBaseError", msg |-> ""]
KeyError == [type |-> "KeyError", msg |-> "default"]
AttributeError == [type |-> "AttributeError", msg |-> "vector"]
NameError == [type |-> "NameError", msg |-> "obj"]

\* one entry of the run's log
Event(e, t, c, o, v) == [ev |-> e, text |-> t, coll |-> c, ok |-> o, val |-> v]

\* ---- the calls the notebooks make on the service, by the library's names
IsLiveCall == [op |-> "is_live", coll |-> "", id |-> ""]
GetCall(c) == [op |-> "collections.get", coll |-> c, id |-> ""]
AggregateCall(c) == [op |-> "aggregate.over_all", coll |-> c, id |-> ""]
DeleteCall(c, id) == [op |-> "data.delete_by_id", coll |-> c, id |-> id]
FetchCall(c, id) == [op |-> "query.fetch_object_by_id", coll |-> c, id |-> id]

\* what a call does to the store: the reads leave it alone, the writes of the
\* library's data interface change it
ServiceApply(s, call) ==
    CASE call.op = "data.delete_by_id" ->
           [s EXCEPT ![call.coll] =
               [k \in (DOMAIN s[call.coll]) \ {call.id} |-> s[call.coll][k]]]
      [] call.op = "data.insert" ->
           [s EXCEPT ![call.coll] =
               [k \in (DOMAIN s[call.coll]) \cup {call.id} |->
                   IF k = call.id THEN Object(k, EmptyVectorDict)
                   ELSE s[call.coll][k]]]
      [] call.op = "collections.delete" ->
           [s EXCEPT ![call.coll] = << >>]
      [] OTHER -> s

TotalCountOfOthers(s, c) == Cardinality(UNION { DOMAIN s[k] : k \in (DOMAIN s) \ {c} })

\* aggregate.over_all(total_count=True).total_count
TotalCount(s, c) == Cardinality(DOMAIN s[c])

\* query.fetch_object_by_id(id, include_vector): the object, its vectors only
\* when asked for; None when the collection holds no object of that id
FetchObjectById(s, c, id, include_vector) ==
    IF id \in DOMAIN s[c]
    THEN IF include_vector THEN s[c][id] ELSE Object(id, EmptyVectorDict)
    ELSE None

\* ------------------------------------------------------- the filesystem
\* Path.iterdir() yields the entries in arbitrary order, each once
IterDir(d) ==
    { s \in [1..Cardinality(d) -> d] :
        \A i, j \in 1..Cardinality(d) : s[i] = s[j] => i = j }

\* len(list(it))
CountLenList(it) == Len(it)

RECURSIVE SumOnes(_)
SumOnes(it) == IF it = << >> THEN 0 ELSE 1 + SumOnes(Tail(it))

CountSumOffByOne(it) == IF it = << >> THEN 0 ELSE SumOnes(Tail(it))
\* sum(1 for _ in it)
CountSum(it) == SumOnes(it)

\* the counting form each notebook uses
DirCount(n, it) == IF n = "monitor" THEN CountLenList(it) ELSE CountSum(it)

\* ----------------------------------------------------------------- Init
Init ==
    /\ nb \in Notebooks
    /\ \E present \in SUBSET Cap3dIds, up \in SUBSET UploadIds, vd \in VectorDicts :
          store = [c \in {COLLECTION_NAME, DATA_UPLOAD_COLLECTION_NAME} |->
                     IF c = COLLECTION_NAME
                     THEN [k \in present |->
                             Object(k, IF k = FetchUuid(nb) THEN vd ELSE EmptyVectorDict)]
                     ELSE [k \in up |-> Object(k, EmptyVectorDict)]]
    /\ dir \in SUBSET (1..MaxDirEntries)
    /\ cell = "none"
    /\ pc = "done"
    /\ conn = 0
    /\ exc = NoExc
    /\ trace = << >>
    /\ cap3d = ""
    /\ cap3d_upload = ""
    /\ cap3d_object_count = << >>
    /\ cap3d_upload_image_count = << >>
    /\ obj = Unbound
    /\ entry_count = << >>

\* ------------------------------------------------- the session cell
\* The statements of the monitor notebook's session cell, in program order.
MonitorAggregatesBeforeAssert ==
    << "with_enter", "get_cap3d", "agg_cap3d", "assert_live", "print_established",
       "print_count", "fetch", "if_obj", "print_type", "print_len",
       "print_head", "with_exit" >>

MonitorSessionCell ==
    << "with_enter", "assert_live", "print_established", "get_cap3d",
       "agg_cap3d", "print_count", "fetch", "if_obj", "print_type",
       "print_len", "print_head", "with_exit" >>

\* The statements of the exploratory notebook's session cell, in program order.
ExplorePrintsAfterEachAggregation ==
    << "with_enter", "assert_live", "print_established", "get_cap3d",
       "agg_cap3d", "print_count", "get_upload", "agg_upload",
       "print_upload_count", "fetch", "with_exit" >>

ExploreSessionCell ==
    << "with_enter", "assert_live", "print_established", "get_cap3d",
       "agg_cap3d", "get_upload", "agg_upload", "print_count",
       "print_upload_count", "fetch", "with_exit" >>

SessionCell(n) == IF n = "monitor" THEN MonitorSessionCell ELSE ExploreSessionCell

\* the statement after statement p
NextPc(p) ==
    LET body == SessionCell(nb)
        i == CHOOSE k \in 1..Len(body) : body[k] = p
    IN  body[i + 1]

At(p) == cell = "session" /\ pc = p

\* an exception raised inside the with body leaves it through __exit__
Raise(e) == exc' = e /\ pc' = "with_exit"

Continue == exc' = exc /\ pc' = NextPc(pc)

Log(e) == trace' = Append(trace, e)

\* with weaviate.WeaviateClient(...) as client:   (__enter__ connects)
WithEnter ==
    /\ pc = "done"
    /\ cell' = "session"
    /\ \E connected \in BOOLEAN :
         /\ trace' = << Event("connect", "", "", connected, << >>) >>
         /\ IF connected
            THEN conn' = conn + 1 /\ exc' = NoExc /\ pc' = SessionCell(nb)[2]
            ELSE conn' = conn /\ exc' = LibraryError /\ pc' = "done"
    /\ UNCHANGED << nb, store, dir, kernel >>

AssertLiveIgnored ==
    /\ At("assert_live")
    /\ \E live \in BOOLEAN : Log(Event(IsLiveCall.op, "", "", live, << >>))
    /\ store' = ServiceApply(store, IsLiveCall)
    /\ Continue
    /\ UNCHANGED << nb, dir, cell, conn, kernel >>

\* assert client.is_live(), "Weaviate client is not live"
AssertLive ==
    /\ At("assert_live")
    /\ \E live \in BOOLEAN :
         /\ Log(Event(IsLiveCall.op, "", "", live, << >>))
         /\ IF live THEN Continue ELSE Raise(AssertionError)
    /\ store' = ServiceApply(store, IsLiveCall)
    /\ UNCHANGED << nb, dir, cell, conn, kernel >>

\* print("Client connection established")
PrintEstablished ==
    /\ At("print_established")
    /\ Log(Event("print", EstablishedText, "", TRUE, << >>))
    /\ Continue
    /\ UNCHANGED << nb, store, dir, cell, conn, kernel >>

\* cap3d = client.collections.get(COLLECTION_NAME)
GetCap3d ==
    /\ At("get_cap3d")
    /\ cap3d' = COLLECTION_NAME
    /\ Log(Event(GetCall(COLLECTION_NAME).op, "", COLLECTION_NAME, TRUE, << >>))
    /\ store' = ServiceApply(store, GetCall(COLLECTION_NAME))
    /\ Continue
    /\ UNCHANGED << nb, dir, cell, conn, cap3d_upload, cap3d_object_count,
                    cap3d_upload_image_count, obj, entry_count >>

AggCap3dSwallowsError ==
    /\ At("agg_cap3d")
    /\ \E ok \in BOOLEAN :
         IF ok
         THEN /\ cap3d_object_count' = << TotalCount(store, cap3d) >>
              /\ Log(Event(AggregateCall(cap3d).op, "", cap3d, TRUE,
                           << TotalCount(store, cap3d) >>))
         ELSE /\ cap3d_object_count' = << 0 >>
              /\ Log(Event(AggregateCall(cap3d).op, "", cap3d, FALSE, << >>))
    /\ Continue
    /\ store' = ServiceApply(store, AggregateCall(cap3d))
    /\ UNCHANGED << nb, dir, cell, conn, cap3d, cap3d_upload,
                    cap3d_upload_image_count, obj, entry_count >>

\* cap3d_object_count = cap3d.aggregate.over_all(total_count=True).total_count
AggCap3d ==
    /\ At("agg_cap3d")
    /\ \E ok \in BOOLEAN :
         IF ok
         THEN /\ cap3d_object_count' = << TotalCount(store, cap3d) >>
              /\ Log(Event(AggregateCall(cap3d).op, "", cap3d, TRUE,
                           << TotalCount(store, cap3d) >>))
              /\ Continue
         ELSE /\ cap3d_object_count' = cap3d_object_count
              /\ Log(Event(AggregateCall(cap3d).op, "", cap3d, FALSE, << >>))
              /\ Raise(LibraryError)
    /\ store' = ServiceApply(store, AggregateCall(cap3d))
    /\ UNCHANGED << nb, dir, cell, conn, cap3d, cap3d_upload,
                    cap3d_upload_image_count, obj, entry_count >>

\* cap3d_upload = client.collections.get(DATA_UPLOAD_COLLECTION_NAME)
GetUpload ==
    /\ At("get_upload")
    /\ cap3d_upload' = DATA_UPLOAD_COLLECTION_NAME
    /\ Log(Event(GetCall(DATA_UPLOAD_COLLECTION_NAME).op, "",
                 DATA_UPLOAD_COLLECTION_NAME, TRUE, << >>))
    /\ store' = ServiceApply(store, GetCall(DATA_UPLOAD_COLLECTION_NAME))
    /\ Continue
    /\ UNCHANGED << nb, dir, cell, conn, cap3d, cap3d_object_count,
                    cap3d_upload_image_count, obj, entry_count >>

\* cap3d_upload_image_count = cap3d_upload.aggregate.over_all(total_count=True).total_count
AggUpload ==
    /\ At("agg_upload")
    /\ \E ok \in BOOLEAN :
         IF ok
         THEN /\ cap3d_upload_image_count' = << TotalCount(store, cap3d_upload) >>
              /\ Log(Event(AggregateCall(cap3d_upload).op, "", cap3d_upload, TRUE,
                           << TotalCount(store, cap3d_upload) >>))
              /\ Continue
         ELSE /\ cap3d_upload_image_count' = cap3d_upload_image_count
              /\ Log(Event(AggregateCall(cap3d_upload).op, "", cap3d_upload, FALSE, << >>))
              /\ Raise(LibraryError)
    /\ store' = ServiceApply(store, AggregateCall(cap3d_upload))
    /\ UNCHANGED << nb, dir, cell, conn, cap3d, cap3d_upload,
                    cap3d_object_count, obj, entry_count >>

\* print(f"Number of objects in {COLLECTION_NAME} collection: {cap3d_object_count}")
PrintCount ==
    /\ At("print_count")
    /\ Log(Event("print", CountText, COLLECTION_NAME, TRUE, cap3d_object_count))
    /\ Continue
    /\ UNCHANGED << nb, store, dir, cell, conn, kernel >>

\* print(f"Number of objects in {DATA_UPLOAD_COLLECTION_NAME} collection: {cap3d_upload_image_count}")
PrintUploadCount ==
    /\ At("print_upload_count")
    /\ Log(Event("print", CountText, DATA_UPLOAD_COLLECTION_NAME, TRUE,
                 cap3d_upload_image_count))
    /\ Continue
    /\ UNCHANGED << nb, store, dir, cell, conn, kernel >>

FetchObjectDeletes ==
    /\ At("fetch")
    /\ obj' = FetchObjectById(store, cap3d, FetchUuid(nb), TRUE)
    /\ Log(Event(DeleteCall(cap3d, FetchUuid(nb)).op, FetchUuid(nb), cap3d, TRUE, << >>))
    /\ Continue
    /\ store' = ServiceApply(store, DeleteCall(cap3d, FetchUuid(nb)))
    /\ UNCHANGED << nb, dir, cell, conn, cap3d, cap3d_upload,
                    cap3d_object_count, cap3d_upload_image_count, entry_count >>

\* obj = cap3d.query.fetch_object_by_id(uuid, include_vector=True)
FetchObject ==
    /\ At("fetch")
    /\ \E ok \in BOOLEAN :
         IF ok
         THEN /\ obj' = FetchObjectById(store, cap3d, FetchUuid(nb), TRUE)
              /\ Log(Event(FetchCall(cap3d, FetchUuid(nb)).op, FetchUuid(nb),
                           cap3d, TRUE, << >>))
              /\ Continue
         ELSE /\ obj' = obj
              /\ Log(Event(FetchCall(cap3d, FetchUuid(nb)).op, FetchUuid(nb),
                           cap3d, FALSE, << >>))
              /\ Raise(LibraryError)
    /\ store' = ServiceApply(store, FetchCall(cap3d, FetchUuid(nb)))
    /\ UNCHANGED << nb, dir, cell, conn, cap3d, cap3d_upload,
                    cap3d_object_count, cap3d_upload_image_count, entry_count >>

IfObjUnguarded ==
    /\ At("if_obj")
    /\ Continue
    /\ UNCHANGED << nb, store, dir, cell, conn, trace, kernel >>

\* if obj:
IfObj ==
    /\ At("if_obj")
    /\ exc' = exc
    /\ pc' = IF obj.kind = "Object" THEN NextPc(pc) ELSE "with_exit"
    /\ UNCHANGED << nb, store, dir, cell, conn, trace, kernel >>

\* evaluating obj.vector["default"]: the exception it raises, if any
VectorLookupError ==
    IF obj.kind = "None" THEN AttributeError
    ELSE IF "default" \in obj.vector.slots THEN NoExc ELSE KeyError

\* print(<something of obj.vector["default"]>)
PrintOfVector(text, val) ==
    /\ IF VectorLookupError = NoExc
       THEN Log(Event("print", text, "", TRUE, val)) /\ Continue
       ELSE trace' = trace /\ Raise(VectorLookupError)
    /\ UNCHANGED << nb, store, dir, cell, conn, kernel >>

\* print(type(obj.vector["default"]))
PrintType == At("print_type") /\ PrintOfVector("<class 'list'>", << >>)

\* print(len(obj.vector["default"]))
PrintLen == At("print_len") /\ PrintOfVector("len", << Len(obj.vector.default) >>)

SliceOneShort(v, k) == [i \in 1..(IF Len(v) < k - 1 THEN Len(v) ELSE k - 1) |-> v[i]]

\* v[:k]
Slice(v, k) == [i \in 1..(IF Len(v) < k THEN Len(v) ELSE k) |-> v[i]]

\* print(obj.vector["default"][:5])
PrintHead == At("print_head") /\ PrintOfVector("head", Slice(obj.vector.default, HeadLen))

WithExitLeaksOnError ==
    /\ At("with_exit")
    /\ conn' = IF exc = NoExc THEN conn - 1 ELSE conn
    /\ trace' = IF exc = NoExc THEN Append(trace, Event("close", "", "", TRUE, << >>))
                ELSE trace
    /\ pc' = "done"
    /\ UNCHANGED << nb, store, dir, cell, exc, kernel >>

\* the end of the with scope (__exit__ closes the client; the exception, if
\* any, goes on to end the cell)
WithExit ==
    /\ At("with_exit")
    /\ conn' = conn - 1
    /\ Log(Event("close", "", "", TRUE, << >>))
    /\ pc' = "done"
    /\ UNCHANGED << nb, store, dir, cell, exc, kernel >>

\* ------------------------------------------------------ the other cells
\* len(list(path_to_example_objects.iterdir()))      (monitor notebook)
\* sum(1 for _ in path_to_example_objects.iterdir()) (exploratory notebook)
DirCountCell ==
    /\ pc = "done"
    /\ cell' = "dircount"
    /\ \E it \in IterDir(dir) :
         /\ entry_count' = << DirCount(nb, it) >>
         /\ trace' = << Event("display", "int", "", TRUE, << DirCount(nb, it) >>) >>
    /\ exc' = NoExc
    /\ UNCHANGED << nb, store, dir, pc, conn, cap3d, cap3d_upload,
                    cap3d_object_count, cap3d_upload_image_count, obj >>

\* the cell "obj" of the exploratory notebook (None displays nothing)
ShowObj ==
    /\ pc = "done"
    /\ nb = "explore"
    /\ cell' = "obj"
    /\ exc' = IF obj.kind = "unbound" THEN NameError ELSE NoExc
    /\ trace' = IF obj.kind = "Object"
                THEN << Event("display", "object", "", TRUE, << >>) >>
                ELSE << >>
    /\ UNCHANGED << nb, store, dir, pc, conn, kernel >>

\* the cell "obj.vector" of the exploratory notebook
ShowObjVector ==
    /\ pc = "done"
    /\ nb = "explore"
    /\ cell' = "obj.vector"
    /\ exc' = CASE obj.kind = "unbound" -> NameError
                [] obj.kind = "None" -> AttributeError
                [] OTHER -> NoExc
    /\ trace' = IF obj.kind = "Object"
                THEN << Event("display",
                              IF "default" \in obj.vector.slots THEN "{'default': [...]}" ELSE "{}",
                              "", TRUE, obj.vector.default) >>
                ELSE << >>
    /\ UNCHANGED << nb, store, dir, pc, conn, kernel >>

\* ----------------------------------------------------------------- Next
Next ==
    \/ WithEnter
    \/ AssertLive
    \/ PrintEstablished
    \/ GetCap3d
    \/ AggCap3d
    \/ GetUpload
    \/ AggUpload
    \/ PrintCount
    \/ PrintUploadCount
    \/ FetchObject
    \/ IfObj
    \/ PrintType
    \/ PrintLen
    \/ PrintHead
    \/ WithExit
    \/ DirCountCell
    \/ ShowObj
    \/ ShowObjVector

Spec == Init /\ [][Next]_vars

\* ---------------------------------------------------- reading the log
SessionDone == cell = "session" /\ pc = "done"
Idx == 1..Len(trace)
ReadOps == { IsLiveCall.op, "collections.get", "aggregate.over_all",
             "query.fetch_object_by_id" }
LocalEvents == {"connect", "close", "print", "display"}
IsRead(e) == e.ev \in {"aggregate.over_all", "query.fetch_object_by_id"}
IsFetch(e) == e.ev = "query.fetch_object_by_id"
IsAggregate(e) == e.ev = "aggregate.over_all"
IsCountPrint(e) == e.ev = "print" /\ e.text = CountText
IsVectorPrint(e) == e.ev = "print" /\ e.text \in {"<class 'list'>", "len", "head"}
NotLive == \E i \in Idx : trace[i].ev = "is_live" /\ ~trace[i].ok
FetchedOk == \E i \in Idx : IsFetch(trace[i]) /\ trace[i].ok
Missing == FetchUuid(nb) \notin DOMAIN store[COLLECTION_NAME]
CountPrints == SelectSeq(trace, IsCountPrint)
VectorPrints == SelectSeq(trace, IsVectorPrint)

\* ------------------------------------------------------------------- C1
\* C1: once the with scope has acquired the connection, the connection is
\* released when the scope exits, on every path: no finished run of the
\* session cell has a connection open, and a run that connected ends with
\* the close.
C1_ConnectionReleased ==
    SessionDone =>
        /\ conn = 0
        /\ (trace[1].ok => trace[Len(trace)].ev = "close")

C1_ReleasedAfterException ==
    /\ SessionDone
    /\ trace[1].ok
    /\ exc = LibraryError
    /\ trace[Len(trace)].ev = "close"
    /\ conn = 0

\* ------------------------------------------------------------------- C2
\* C2: when is_live() reports not-live the cell halts with the
\* AssertionError "Weaviate client is not live"; "Client connection
\* established" is not printed and no collection handle, aggregation or
\* fetch call is issued in that run.
C2_NotLiveHalts ==
    (cell = "session" /\ NotLive) =>
        /\ exc = AssertionError
        /\ exc.msg = "Weaviate client is not live"
        /\ pc \in {"with_exit", "done"}
        /\ \A i \in Idx :
              trace[i].ev \notin {"print", "collections.get",
                                  "aggregate.over_all", "query.fetch_object_by_id"}

C2_HaltedNotLive == SessionDone /\ NotLive /\ exc.type = "AssertionError"

\* ------------------------------------------------------------------- C3
\* C3: no step of any cell changes the store (its collections, their
\* objects, the objects' vectors), and the only calls issued on the service
\* are is_live, collections.get, aggregate.over_all and fetch_object_by_id.
C3_ReadOnly ==
    [][ /\ store' = store
        /\ \A i \in 1..Len(trace') : trace'[i].ev \in ReadOps \cup LocalEvents ]_vars

C3_FetchedFromStore ==
    /\ SessionDone
    /\ exc = NoExc
    /\ FetchedOk
    /\ ~Missing
    /\ obj = store[COLLECTION_NAME][FetchUuid(nb)]

\* ------------------------------------------------------------------- C4
\* C4: a failed aggregation or fetch ends the cell with the library's
\* exception: nothing of the scope runs after the failing call (only the
\* release of the connection follows it), and no read call is issued twice
\* in a run.
C4_FailurePropagates ==
    cell = "session" =>
        /\ \A i \in Idx :
              (IsRead(trace[i]) /\ ~trace[i].ok) =>
                  /\ exc = LibraryError
                  /\ pc \in {"with_exit", "done"}
                  /\ \/ i = Len(trace)
                     \/ i + 1 = Len(trace) /\ trace[i + 1].ev = "close"
        /\ \A i, j \in Idx :
              ( /\ IsRead(trace[i])
                /\ trace[i].ev = trace[j].ev
                /\ trace[i].coll = trace[j].coll
                /\ trace[i].text = trace[j].text ) => i = j

C4_AggregationFailed ==
    /\ SessionDone
    /\ \E i \in Idx : IsAggregate(trace[i]) /\ ~trace[i].ok
    /\ exc = LibraryError

\* ------------------------------------------------------------------- C5
\* C5 as stated: a fetch of an identifier that has no record in the
\* collection ends the session cell with an uncaught exception.
C5_MissingIdentifierRaises ==
    (SessionDone /\ Missing /\ \E i \in Idx : IsFetch(trace[i])) => exc # NoExc

\* C5 as amended: when the identifier has no record and the fetch call
\* itself does not fail, the fetch returns None and raises nothing; the cell
\* goes on to its normal end (nothing but the release of the connection
\* follows the fetch: the monitor notebook's "if obj:" skips the vector
\* lines).
C5_MissingIdentifierReturnsNone ==
    (cell = "session" /\ Missing) =>
        \A i \in Idx :
            (IsFetch(trace[i]) /\ trace[i].ok) =>
                /\ obj = None
                /\ exc = NoExc
                /\ VectorPrints = << >>
                /\ \/ i = Len(trace)
                   \/ i + 1 = Len(trace) /\ trace[i + 1].ev = "close"
                /\ (pc = "done" => trace[Len(trace)].ev = "close" /\ conn = 0)

C5_MissingIdentifierCompletes ==
    /\ SessionDone
    /\ nb = "monitor"
    /\ Missing
    /\ FetchedOk
    /\ exc = NoExc
    /\ obj = None

\* ------------------------------------------------------------------- C6
\* C6: for the directory snapshot, both counting forms return the number of
\* immediate entries whatever order iterdir() yields them in (so they agree
\* with each other, the empty directory included), and every evaluation of
\* the count cell gives that number.
C6_CountStable ==
    /\ \A it \in IterDir(dir) :
          /\ CountLenList(it) = Cardinality(dir)
          /\ CountSum(it) = Cardinality(dir)
          /\ CountLenList(it) = CountSum(it)
    /\ (entry_count # << >> => entry_count = << Cardinality(dir) >>)
    /\ (cell = "dircount" =>
          /\ exc = NoExc
          /\ trace = << Event("display", "int", "", TRUE, << Cardinality(dir) >>) >>)

C6_CountedTwoEntries ==
    /\ cell = "dircount"
    /\ nb = "explore"
    /\ Cardinality(dir) >= 2
    /\ entry_count = << Cardinality(dir) >>

\* ------------------------------------------------------------------- C7
\* C7 as stated: the monitor notebook compares the directory entry count
\* with the object count the database reports: once it has both, its run
\* carries the result of that comparison.
C7_MonitorComparesCounts ==
    (nb = "monitor" /\ SessionDone /\ exc = NoExc /\ entry_count # << >>) =>
        \E i \in Idx : trace[i].ev \in {"print", "display"} /\ trace[i].text = "compare"

\* C7 as amended: the monitor notebook shows the two numbers and compares
\* nothing: the count cell's value is the number of directory entries, and a
\* session run that succeeds prints one count line, for Cap3DMM, with the
\* object count of that collection; what the run prints does not involve
\* the directory.
C7_MonitorShowsBothCounts ==
    nb = "monitor" =>
        /\ (entry_count # << >> => entry_count = << Cardinality(dir) >>)
        /\ (SessionDone /\ exc = NoExc) =>
              /\ Len(CountPrints) = 1
              /\ CountPrints[1].coll = COLLECTION_NAME
              /\ CountPrints[1].val = << Cardinality(DOMAIN store[COLLECTION_NAME]) >>
              /\ cap3d_object_count = CountPrints[1].val
        /\ (cell = "session" =>
              \A i \in Idx : trace[i].ev # "display" /\ trace[i].text # "compare")

C7_BothCountsShown ==
    /\ nb = "monitor"
    /\ SessionDone
    /\ exc = NoExc
    /\ entry_count # << >>
    /\ entry_count # cap3d_object_count

\* ------------------------------------------------------------------- C8
\* the place of an event in the order C8 gives (0: not in the list)
C8_Rank(e) ==
    CASE e.ev = "connect" -> 1
      [] e.ev = "is_live" -> 2
      [] e.ev = "print" /\ e.text = EstablishedText -> 3
      [] IsAggregate(e) -> 4
      [] IsCountPrint(e) -> 5
      [] IsFetch(e) -> 6
      [] e.ev = "close" -> 7
      [] OTHER -> 0

\* C8: a session run does its steps one after the other in the order
\* connect, liveness check, "Client connection established", count
\* aggregation(s), count print(s), fetch, release; each step needs the one
\* before it; no aggregation or fetch comes before a successful liveness
\* check or after the release; the connection is open exactly while the
\* scope runs, and never more than one.
C8_FixedOrder ==
    /\ conn \in {0, 1}
    /\ conn = 1 <=> (cell = "session" /\ pc # "done")
    /\ cell = "session" =>
          /\ trace[1].ev = "connect"
          /\ \A i, j \in Idx :
                (i < j /\ C8_Rank(trace[i]) # 0 /\ C8_Rank(trace[j]) # 0) =>
                    /\ C8_Rank(trace[i]) <= C8_Rank(trace[j])
                    /\ C8_Rank(trace[i]) \in {1, 2, 3, 6, 7} =>
                          C8_Rank(trace[i]) < C8_Rank(trace[j])
          /\ \A j \in Idx :
                C8_Rank(trace[j]) \in 2..6 =>
                    \E i \in 1..(j - 1) :
                        trace[i].ok /\ C8_Rank(trace[i]) = C8_Rank(trace[j]) - 1
          /\ \A j \in Idx :
                IsRead(trace[j]) =>
                    /\ \E i \in 1..(j - 1) : trace[i].ev = "is_live" /\ trace[i].ok
                    /\ \A i \in 1..(j - 1) : trace[i].ev # "close"
          /\ \A i \in Idx : trace[i].ev = "close" => i = Len(trace) /\ pc = "done"

C8_FullRun ==
    /\ SessionDone
    /\ nb = "explore"
    /\ exc = NoExc
    /\ Len(CountPrints) = 2
    /\ FetchedOk

\* ------------------------------------------------------------------- C9
\* C9: in the monitor notebook the vector lines are printed only when the
\* fetch returned an object; when it returned one with a vector of length n
\* in the "default" slot, exactly three lines are printed, in order: the
\* vector's type, n, and the first min(5, n) values in stored order.
C9_VectorLines ==
    (nb = "monitor" /\ cell = "session") =>
        /\ VectorPrints # << >> => (FetchedOk /\ obj.kind = "Object")
        /\ (SessionDone /\ FetchedOk /\ ~Missing
              /\ "default" \in store[COLLECTION_NAME][uuid].vector.slots) =>
              LET v == store[COLLECTION_NAME][uuid].vector.default
                  n == Len(v)
                  m == IF n < 5 THEN n ELSE 5
              IN  /\ exc = NoExc
                  /\ Len(VectorPrints) = 3
                  /\ VectorPrints[1].text = "<class 'list'>"
                  /\ VectorPrints[2].text = "len"
                  /\ VectorPrints[2].val = << n >>
                  /\ VectorPrints[3].text = "head"
                  /\ Len(VectorPrints[3].val) = m
                  /\ \A i \in 1..m : VectorPrints[3].val[i] = v[i]

C9_LongVectorPrinted ==
    /\ nb = "monitor"
    /\ SessionDone
    /\ FetchedOk
    /\ obj.kind = "Object"
    /\ Len(obj.vector.default) > 5
    /\ Len(VectorPrints) = 3

\* ------------------------------------------------------------------ C10
\* C10: in the exploratory notebook both counts are obtained before either
\* count line is printed, so a finished run has printed both count lines,
\* each with its own collection's count, or neither: if either aggregation
\* failed, no count line was printed.
C10_CountLinesAllOrNothing ==
    (nb = "explore" /\ cell = "session") =>
        /\ \A j \in Idx :
              IsCountPrint(trace[j]) =>
                  \A c \in {COLLECTION_NAME, DATA_UPLOAD_COLLECTION_NAME} :
                      \E i \in 1..(j - 1) :
                          IsAggregate(trace[i]) /\ trace[i].ok /\ trace[i].coll = c
        /\ pc = "done" =>
              /\ Len(CountPrints) \in {0, 2}
              /\ (\E i \in Idx : IsAggregate(trace[i]) /\ ~trace[i].ok) =>
                    CountPrints = << >>
              /\ Len(CountPrints) = 2 =>
                    /\ CountPrints[1].coll = COLLECTION_NAME
                    /\ CountPrints[1].val =
                          << Cardinality(DOMAIN store[COLLECTION_NAME]) >>
                    /\ CountPrints[2].coll = DATA_UPLOAD_COLLECTION_NAME
                    /\ CountPrints[2].val =
                          << Cardinality(DOMAIN store[DATA_UPLOAD_COLLECTION_NAME]) >>

C10_SecondAggregationFailed ==
    /\ nb = "explore"
    /\ SessionDone
    /\ \E i \in Idx : IsAggregate(trace[i]) /\ trace[i].ok /\ trace[i].coll = COLLECTION_NAME
    /\ \E i \in Idx :
          IsAggregate(trace[i]) /\ ~trace[i].ok /\ trace[i].coll = DATA_UPLOAD_COLLECTION_NAME
    /\ CountPrints = << >>

====
